---- MODULE Spec2Model ----
(***************************************************************************)
(* Model of streamlit_app.py: a budget tracker that keeps its ledger in a  *)
(* CSV file.  Every interaction is one run of the script: load_data, at    *)
(* most one mutation (add, edit or delete), save_data, rerun.              *)
(*                                                                         *)
(* A DataFrame is [columns, index, data]: the column names in order, the   *)
(* row labels (0-based, as pandas keeps them) and the rows, each a         *)
(* function from column name to value.  The CSV file is [exists, header,   *)
(* lines], each line a function from column name to the text of the cell.  *)
(* An amount is a natural number; the cell of an amount holds the number   *)
(* itself, because to_csv writes repr(float) and read_csv parses it back   *)
(* to the same float.                                                      *)
(***************************************************************************)
EXTENDS Integers, Sequences, FiniteSets

VARIABLES
  file,      \* the backing file DATA_FILE
  last,      \* outcome of the latest interaction: which form ran, what it showed
  trace,     \* the interactions so far (recorded by the scenario only)
  mem,       \* round trip: the ledger handed to save_data
  reloaded,  \* round trip: what load_data returns afterwards
  today,     \* render: the calendar month of datetime.today()
  limit,     \* render: the value of the "Monthly Expense Limit" input
  shown,     \* render: what the budget section displays
  sess,      \* two sessions: each session's position and its DataFrame
  hist       \* two sessions: order of the saves, and whether cycles overlapped

vars == <<file, last, trace, mem, reloaded, today, limit, shown, sess, hist>>

(***************************************************************************)
(* Bounds of the model.                                                    *)
(***************************************************************************)
MaxRows == 3
MaxTrace == 3

(***************************************************************************)
(* Values.                                                                 *)
(***************************************************************************)
\* float NaN, as read_csv yields for an empty cell; it is no text.
NaN == "<NaN>"
\* pandas NaT: the date that failed to parse.
NaT == <<>>

Dates == {<<2024, 2, 15>>, <<2024, 3, 1>>, <<2024, 3, 2>>}

\* Timestamp -> text, as to_csv writes a datetime64 cell (NaT as the empty cell).
DateText(d) ==
  CASE d = <<2024, 2, 15>> -> "2024-02-15"
    [] d = <<2024, 3, 1>>  -> "2024-03-01"
    [] d = <<2024, 3, 2>>  -> "2024-03-02"
    [] OTHER               -> ""

\* A Date cell that is no date.
BadDateText == "not-a-date"

\* strftime('%Y-%m') of a date
MonthText(d) ==
  IF d[1] = 2024 /\ d[2] = 2 THEN "2024-02"
  ELSE IF d[1] = 2024 /\ d[2] = 3 THEN "2024-03"
  ELSE IF d[1] = 2024 /\ d[2] = 4 THEN "2024-04"
  ELSE IF d[1] = 2023 /\ d[2] = 3 THEN "2023-03"
  ELSE "other"

\* df["Date"].dt.to_period("M").astype(str): "YYYY-MM", and "NaT" for NaT
MonthOf(d) == IF d = NaT THEN "NaT" ELSE MonthText(d)

\* The days datetime.today() is drawn from.
Todays == {<<2024, 2, 15>>, <<2024, 3, 2>>, <<2024, 4, 1>>, <<2023, 3, 1>>}

\* Values the add and edit forms can submit (line 35: amount >= 0, line 36:
\* type is Income or Expense, line 37: any text, the empty text too).
Transactions ==
  {[Date |-> d, Type |-> "Income", Amount |-> 500, Category |-> "Salary"] : d \in Dates}
  \cup {[Date |-> d, Type |-> "Expense", Amount |-> 30, Category |-> c] :
          d \in Dates, c \in {"Food", ""}}

\* What the forms of a session submit: five of those transactions, on three
\* days, two of them on one day, the empty category among them.
Inputs ==
  {[Date |-> <<2024, 3, 1>>, Type |-> "Expense", Amount |-> 30, Category |-> "Food"],
   [Date |-> <<2024, 3, 2>>, Type |-> "Income", Amount |-> 500, Category |-> "Salary"],
   [Date |-> <<2024, 3, 2>>, Type |-> "Expense", Amount |-> 30, Category |-> ""],
   [Date |-> <<2024, 3, 1>>, Type |-> "Income", Amount |-> 500, Category |-> "Salary"],
   [Date |-> <<2024, 2, 15>>, Type |-> "Expense", Amount |-> 30, Category |-> "Food"]}

Limits == {0, 30, 45, 60}

BaseColumns == <<"Date", "Type", "Amount", "Category">>

Range(s) == {s[i] : i \in DOMAIN s}

\* the (date, type, amount, category) of a row, whatever other column it has
Tx(row) ==
  [Date |-> row["Date"], Type |-> row["Type"], Amount |-> row["Amount"],
   Category |-> row["Category"]]

TxSeq(rows) == [i \in DOMAIN rows |-> Tx(rows[i])]

(***************************************************************************)
(* CSV: to_csv and read_csv.                                               *)
(***************************************************************************)
\* read_csv's default na_values that the model's texts can hit.
NaTexts == {"", "NA", "nan", "NaN", "null"}

\* One cell written by to_csv: a date as its text, NaN and NaT as the empty
\* cell, a text as itself (the empty text is the empty cell too).
ToCell(col, v) ==
  IF col = "Date" THEN DateText(v)
  ELSE IF col = "Amount" THEN v
  ELSE IF v = NaN THEN "" ELSE v

\* One cell parsed by read_csv: an empty or NA-like cell is NaN.
FromCell(col, txt) ==
  IF col = "Amount" THEN txt
  ELSE IF txt \in NaTexts THEN NaN ELSE txt

\* pd.to_datetime(..., errors='coerce') of one cell read from the file: the
\* date a text spells, NaT for NaN and for a text that spells none
to_datetime(v) ==
  IF \E d \in Dates : DateText(d) = v
  THEN CHOOSE d \in Dates : DateText(d) = v
  ELSE NaT

EmptyFrame == [columns |-> BaseColumns, index |-> <<>>, data |-> <<>>]

NoFile == [exists |-> FALSE, header |-> <<>>, lines |-> <<>>]

\* df.to_csv(DATA_FILE, index=False): header and every row, labels not written
to_csv(df) ==
  [exists |-> TRUE,
   header |-> df.columns,
   lines  |-> [i \in DOMAIN df.data |->
                 [c \in Range(df.columns) |-> ToCell(c, df.data[i][c])]]]

\* pd.read_csv(DATA_FILE): labels 0..n-1
read_csv(f) ==
  [columns |-> f.header,
   index   |-> [i \in DOMAIN f.lines |-> i - 1],
   data    |-> [i \in DOMAIN f.lines |->
                 [c \in Range(f.header) |-> FromCell(c, f.lines[i][c])]]]

\* the subsequence of s at the positions that satisfy keep, in order
RECURSIVE SelectIdx(_, _, _)
SelectIdx(s, keep, i) ==
  IF i > Len(s) THEN <<>>
  ELSE IF i \in keep THEN <<s[i]>> \o SelectIdx(s, keep, i + 1)
  ELSE SelectIdx(s, keep, i + 1)

\* df["Date"] = pd.to_datetime(df["Date"], errors='coerce')
CoerceDates(df) ==
  [df EXCEPT !.data = [i \in DOMAIN df.data |->
                         [df.data[i] EXCEPT !["Date"] = to_datetime(@)]]]

\* df.dropna(subset=["Date"]): the rows keep their labels
dropna(df) ==
  LET keep == {i \in DOMAIN df.data : df.data[i]["Date"] # NaT}
  IN  [df EXCEPT !.index = SelectIdx(df.index, keep, 1),
                 !.data  = SelectIdx(df.data, keep, 1)]

\* load_data without line 16: the rows whose date failed to parse stay
load_data_keeping_rows(f) ==
  IF f.exists THEN CoerceDates(read_csv(f)) ELSE EmptyFrame

\* lines 12-19
load_data(f) ==
  IF f.exists THEN dropna(CoerceDates(read_csv(f))) ELSE EmptyFrame

save_data(df) == to_csv(df)

(***************************************************************************)
(* The DataFrame operations of the script.                                 *)
(***************************************************************************)
\* pd.DataFrame([[date, type_, amount, category]], columns=df.columns): the
\* four values by position; pandas raises ValueError unless there are
\* exactly four columns.
CanBuildRow(df) == Len(df.columns) = 4

new_row(df, t) ==
  LET vals == <<t.Date, t.Type, t.Amount, t.Category>>
  IN  [c \in Range(df.columns) |->
         vals[CHOOSE k \in DOMAIN df.columns : df.columns[k] = c]]

\* line 42 with df left out of the list: the new row alone
concat_new_row_alone(df, row) ==
  [df EXCEPT !.data = <<row>>, !.index = <<0>>]

\* pd.concat([df, new_row], ignore_index=True)
concat(df, row) ==
  LET data == Append(df.data, row)
  IN  [df EXCEPT !.data = data, !.index = [i \in DOMAIN data |-> i - 1]]

\* lines 48-49 on the loaded frame: the dates are datetimes already, the
\* rows without one are dropped
CleanDateColumn(df) == dropna(df)

\* df["Month"] = df["Date"].dt.to_period("M").astype(str): a new last
\* column, or the existing Month column overwritten
add_month(df) ==
  [df EXCEPT
     !.columns = IF "Month" \in Range(df.columns) THEN df.columns
                 ELSE Append(df.columns, "Month"),
     !.data = [i \in DOMAIN df.data |->
                 [c \in Range(df.columns) \cup {"Month"} |->
                    IF c = "Month" THEN MonthOf(df.data[i]["Date"])
                    ELSE df.data[i][c]]]]

DayKey(d) == d[1] * 10000 + d[2] * 100 + d[3]

\* The orders sort_values(by="Date", ascending=False) can produce: every
\* permutation that puts later dates first.  The default sort kind is
\* quicksort, which is not stable: rows of one date come in any order.
SortOrders(df) ==
  LET n == Len(df.data)
  IN  {perm \in [1..n -> 1..n] :
         /\ \A i, j \in 1..n : i # j => perm[i] # perm[j]
         /\ \A i, j \in 1..n :
              i < j => DayKey(df.data[perm[i]]["Date"]) >= DayKey(df.data[perm[j]]["Date"])}

\* df.sort_values(...) under one of those orders: rows move with their labels
sort_values(df, perm) ==
  [df EXCEPT !.index = [i \in DOMAIN df.index |-> df.index[perm[i]]],
             !.data  = [i \in DOMAIN df.data |-> df.data[perm[i]]]]

\* df.reset_index(drop=True): labels 0..n-1 in the current order
reset_index(df) ==
  [df EXCEPT !.index = [i \in DOMAIN df.index |-> i - 1]]

HasLabel(df, label) == \E i \in DOMAIN df.index : df.index[i] = label

\* df.loc[label, col] = v: the row labelled label; when no row has that
\* label pandas enlarges the frame by a row of missing values
loc_set(df, label, col, v) ==
  IF HasLabel(df, label)
  THEN [df EXCEPT !.data = [i \in DOMAIN df.data |->
                              IF df.index[i] = label
                              THEN [df.data[i] EXCEPT ![col] = v]
                              ELSE df.data[i]]]
  ELSE [df EXCEPT
          !.index = Append(df.index, label),
          !.data = Append(df.data,
                          [c \in Range(df.columns) |->
                             IF c = col THEN v
                             ELSE IF c = "Date" THEN NaT ELSE NaN])]

\* df.drop(label): the rows labelled label removed (KeyError when none is)
drop(df, label) ==
  LET keep == {i \in DOMAIN df.index : df.index[i] # label}
  IN  [df EXCEPT !.index = SelectIdx(df.index, keep, 1),
                 !.data  = SelectIdx(df.data, keep, 1)]

\* lines 29-90 of a run in which the add form is not submitted: the frame
\* the table section starts from
FrameForTable(f) == add_month(CleanDateColumn(load_data(f)))

\* lines 115-118: the four assignments of the update branch
update_row(df, label, t) ==
  loc_set(loc_set(loc_set(loc_set(df, label, "Amount", t.Amount),
                          label, "Type", t.Type),
                  label, "Category", t.Category),
          label, "Date", t.Date)

(***************************************************************************)
(* Interactions of one session: each is one whole run of the script.       *)
(***************************************************************************)
NoTx == [Date |-> NaT, Type |-> "", Amount |-> 0, Category |-> ""]

\* What a run leaves for the claims to read: the form that ran, whether it
\* reported success, index_to_edit, the row the form showed (line 102), the
\* submitted fields, and how many lines of the file load_data dropped.
Outcome(op, ok, pos, row, new, dropped) ==
  [op |-> op, ok |-> ok, pos |-> pos, row |-> row, new |-> new, dropped |-> dropped]

Dropped(df) == Len(file.lines) - Len(df.data)

\* The add form submitted with t (lines 29-45).
Add(t) ==
  LET df == load_data(file)
  IN  /\ Len(df.data) < MaxRows
      /\ IF CanBuildRow(df)
         THEN /\ file' = save_data(concat(df, new_row(df, t)))
              /\ last' = Outcome("add", TRUE, 0, NoTx, t, Dropped(df))
         ELSE /\ file' = file
              /\ last' = Outcome("add", FALSE, 0, NoTx, t, Dropped(df))

\* Lines 94-96 of a run that reaches the table: the frames line 95 can
\* leave in df, one per order the sort can produce.
TableFrames ==
  LET base == FrameForTable(file)
  IN  {sort_values(base, perm) : perm \in SortOrders(base)}

\* The edit form submitted with "Update Transaction" (lines 94-121): df as
\* line 95 left it, index_to_edit = p, the form's fields = t.
Edit(df, p, t) ==
  /\ df.data # <<>>
  /\ p \in 0..(Len(df.data) - 1)
  /\ LET df_display == reset_index(df)
         row        == df_display.data[p + 1]
         label      == df_display.index[p + 1]
     IN  /\ file' = save_data(update_row(df, label, t))
         /\ last' = Outcome("edit", TRUE, p, Tx(row), t, Dropped(df))

\* The edit form submitted with "Delete Transaction" (lines 94-112, 123-127).
Delete(df, p) ==
  /\ df.data # <<>>
  /\ p \in 0..(Len(df.data) - 1)
  /\ LET df_display == reset_index(df)
         row        == df_display.data[p + 1]
         label      == df_display.index[p + 1]
     IN  IF HasLabel(df, label)
         THEN /\ file' = save_data(drop(df, label))
              /\ last' = Outcome("delete", TRUE, p, Tx(row), NoTx, Dropped(df))
         ELSE /\ file' = file
              /\ last' = Outcome("delete", FALSE, p, Tx(row), NoTx, Dropped(df))

AddStep == \E t \in Inputs : Add(t)

EditStep == \E df \in TableFrames, p \in 0..(MaxRows - 1), t \in Inputs : Edit(df, p, t)

DeleteStep == \E df \in TableFrames, p \in 0..(MaxRows - 1) : Delete(df, p)

\* A line of the file as a transaction's row is written.
LineOf(t) == [c \in Range(BaseColumns) |-> ToCell(c, t[c])]

\* A line whose Date cell spells no date.
BadLine ==
  [Date |-> BadDateText, Type |-> "Expense", Amount |-> 30, Category |-> "Food"]

\* The files a session can start from: none, or one with the four columns
\* and up to MaxRows lines, unparseable dates among them.
InitialFiles ==
  {NoFile} \cup
  {[exists |-> TRUE, header |-> BaseColumns, lines |-> ls] :
     ls \in UNION {[1..n -> {LineOf(t) : t \in Inputs} \cup {BadLine}] : n \in 0..MaxRows}}

Idle == Outcome("none", TRUE, 0, NoTx, NoTx, 0)

NothingShown ==
  [total_income |-> 0, total_expense |-> 0, balance |-> 0,
   today_income |-> 0, today_expense |-> 0, today_balance |-> 0,
   new_transactions_today |-> 0, monthly_expense |-> 0, status |-> "none"]

Init ==
  /\ file \in InitialFiles
  /\ last = Idle
  /\ trace = <<>>
  /\ mem = EmptyFrame
  /\ reloaded = EmptyFrame
  /\ today = <<2024, 3, 2>>
  /\ limit = 0
  /\ shown = NothingShown
  /\ sess = <<>>
  /\ hist = <<>>

Next ==
  \/ AddStep /\ UNCHANGED <<trace, mem, reloaded, today, limit, shown, sess, hist>>
  \/ EditStep /\ UNCHANGED <<trace, mem, reloaded, today, limit, shown, sess, hist>>
  \/ DeleteStep /\ UNCHANGED <<trace, mem, reloaded, today, limit, shown, sess, hist>>

Spec == Init /\ [][Next]_vars

(***************************************************************************)
(* The scenario: the same interactions from an empty store, each recorded. *)
(***************************************************************************)
ScenarioInit ==
  /\ file = NoFile
  /\ last = Idle
  /\ trace = <<>>
  /\ mem = EmptyFrame
  /\ reloaded = EmptyFrame
  /\ today = <<2024, 3, 2>>
  /\ limit = 0
  /\ shown = NothingShown
  /\ sess = <<>>
  /\ hist = <<>>

\* an interaction, recorded
Recorded ==
  /\ Len(trace) < MaxTrace
  /\ trace' = Append(trace, last')
  /\ UNCHANGED <<mem, reloaded, today, limit, shown, sess, hist>>

ScenarioNext ==
  \/ AddStep /\ Recorded
  \/ EditStep /\ Recorded
  \/ DeleteStep /\ Recorded

ScenarioSpec == ScenarioInit /\ [][ScenarioNext]_vars

(***************************************************************************)
(* The aggregates of a run that submits no form (lines 29-90).             *)
(***************************************************************************)
RECURSIVE SumAmount(_)
SumAmount(rows) ==
  IF rows = <<>> THEN 0 ELSE Head(rows)["Amount"] + SumAmount(Tail(rows))

\* df[df["Type"] == "Income"]["Amount"].sum()
total_income(df) ==
  SumAmount(SelectSeq(df.data, LAMBDA r : r["Type"] = "Income"))

\* df[df["Type"] == "Expense"]["Amount"].sum()
total_expense(df) ==
  SumAmount(SelectSeq(df.data, LAMBDA r : r["Type"] = "Expense"))

\* df[df["Date"].dt.normalize() == today]
df_today(df, day) ==
  [df EXCEPT !.data = SelectSeq(df.data, LAMBDA r : r["Date"] = day)]

\* df[(df["Type"] == "Expense") & (df["Month"] == current_month)]["Amount"].sum()
monthly_expense(df, current_month) ==
  SumAmount(SelectSeq(df.data,
                      LAMBDA r : r["Type"] = "Expense" /\ r["Month"] = current_month))

\* line 87 with >= for >
budget_status_ge(spent, lim) ==
  IF spent >= lim THEN "OverBudget" ELSE "WithinBudget"

\* lines 87-90: st.error when over the limit, st.success otherwise
budget_status(spent, lim) ==
  IF spent > lim THEN "OverBudget" ELSE "WithinBudget"

\* Everything lines 29-90 display for file f on day `day` with limit lim.
Summary(f, day, lim) ==
  LET df    == CleanDateColumn(load_data(f))
      dft   == df_today(df, day)
      dfm   == add_month(df)
      spent == monthly_expense(dfm, MonthText(day))
  IN  [total_income    |-> total_income(df),
       total_expense   |-> total_expense(df),
       balance         |-> total_income(df) - total_expense(df),
       today_income    |-> total_income(dft),
       today_expense   |-> total_expense(dft),
       today_balance   |-> total_income(dft) - total_expense(dft),
       new_transactions_today |-> Len(dft.data),
       monthly_expense |-> spent,
       status          |-> budget_status(spent, lim)]

\* The files the aggregates are applied to: up to MaxRows lines, each a
\* transaction of one of two months or a line without a date.
LedgerFiles ==
  {[exists |-> TRUE, header |-> BaseColumns, lines |-> ls] :
     ls \in UNION {[1..n -> {LineOf(t) : t \in Transactions} \cup {BadLine}] :
                    n \in 0..MaxRows}}

RenderInit ==
  /\ file \in LedgerFiles
  /\ today \in Todays
  /\ limit \in Limits
  /\ shown = NothingShown
  /\ last = Idle
  /\ trace = <<>>
  /\ mem = EmptyFrame
  /\ reloaded = EmptyFrame
  /\ sess = <<>>
  /\ hist = <<>>

\* One run of the script with no form submitted.
Render ==
  /\ shown = NothingShown
  /\ shown' = Summary(file, today, limit)
  /\ UNCHANGED <<file, last, trace, mem, reloaded, today, limit, sess, hist>>

RenderSpec == RenderInit /\ [][Render]_vars

(***************************************************************************)
(* Round trip: a ledger is saved, then loaded.                             *)
(***************************************************************************)
\* The ledgers with valid dates: up to MaxRows transactions, labels 0..n-1.
Ledgers ==
  UNION {{[columns |-> BaseColumns, index |-> [i \in 1..n |-> i - 1], data |-> rows] :
            rows \in [1..n -> Transactions]} : n \in 0..MaxRows}

RoundTripInit ==
  /\ mem \in Ledgers
  /\ file = NoFile
  /\ reloaded = EmptyFrame
  /\ last = Idle
  /\ trace = <<>>
  /\ today = <<2024, 3, 2>>
  /\ limit = 0
  /\ shown = NothingShown
  /\ sess = <<>>
  /\ hist = <<>>

\* save_data(L)
SaveLedger ==
  /\ last.op = "none"
  /\ file' = save_data(mem)
  /\ last' = Outcome("save", TRUE, 0, NoTx, NoTx, 0)
  /\ UNCHANGED <<trace, mem, reloaded, today, limit, shown, sess, hist>>

\* load_data() of what was saved
LoadLedger ==
  /\ last.op = "save"
  /\ reloaded' = load_data(file)
  /\ last' = Outcome("load", TRUE, 0, NoTx, NoTx, Dropped(load_data(file)))
  /\ UNCHANGED <<file, trace, mem, today, limit, shown, sess, hist>>

RoundTripNext == SaveLedger \/ LoadLedger

RoundTripSpec == RoundTripInit /\ [][RoundTripNext]_vars

(***************************************************************************)
(* Two sessions on one file.  A run of the script reads the file at line   *)
(* 29 and writes it at line 43; nothing locks the file in between, so the  *)
(* two steps of one session interleave with those of the other.            *)
(***************************************************************************)
Sessions == {1, 2}

Other(s) == CHOOSE o \in Sessions : o # s

ConcInit ==
  /\ file \in {f \in InitialFiles : Len(f.lines) + Cardinality(Sessions) <= MaxRows}
  /\ sess = [s \in Sessions |-> [pc |-> "idle", df |-> EmptyFrame, new |-> NoTx]]
  /\ hist = [initial |-> file, order |-> <<>>, overlap |-> FALSE]
  /\ last = Idle
  /\ trace = <<>>
  /\ mem = EmptyFrame
  /\ reloaded = EmptyFrame
  /\ today = <<2024, 3, 2>>
  /\ limit = 0
  /\ shown = NothingShown

\* Session s starts a run with the add form submitted with t: line 29.
SessionLoad(s, t) ==
  /\ sess[s].pc = "idle"
  /\ sess' = [sess EXCEPT ![s] = [pc |-> "loaded", df |-> load_data(file), new |-> t]]
  /\ hist' = [hist EXCEPT !.overlap = @ \/ sess[Other(s)].pc = "loaded"]
  /\ UNCHANGED <<file, last, trace, mem, reloaded, today, limit, shown>>

\* Session s goes on: lines 40-45, st.success on the way.
SessionSave(s) ==
  /\ sess[s].pc = "loaded"
  /\ IF CanBuildRow(sess[s].df)
     THEN /\ file' = save_data(concat(sess[s].df, new_row(sess[s].df, sess[s].new)))
          /\ sess' = [sess EXCEPT ![s].pc = "done"]
     ELSE /\ file' = file
          /\ sess' = [sess EXCEPT ![s].pc = "failed"]
  /\ hist' = [hist EXCEPT !.order = Append(@, s)]
  /\ UNCHANGED <<last, trace, mem, reloaded, today, limit, shown>>

ConcNext ==
  \/ \E s \in Sessions, t \in Inputs : SessionLoad(s, t)
  \/ \E s \in Sessions : SessionSave(s)

ConcSpec == ConcInit /\ [][ConcNext]_vars

(***************************************************************************)
(* What the claims speak of.                                               *)
(***************************************************************************)
\* The transactions a load of f yields, each as the line that stores it.
StoredLines(f) ==
  LET df == load_data(f)
  IN  [i \in DOMAIN df.data |-> LineOf(Tx(df.data[i]))]

Count(seq, x) == Cardinality({i \in DOMAIN seq : seq[i] = x})

One(b) == IF b THEN 1 ELSE 0

\* after holds the rows of before, with one `gone` less and one `come` more
Replaced(before, after, gone, come) ==
  \A x \in Range(before) \cup Range(after) \cup {gone, come} :
    Count(after, x) + One(x = gone) = Count(before, x) + One(x = come)

\* after holds the rows of before, with one `gone` less
Removed(before, after, gone) ==
  \A x \in Range(before) \cup Range(after) \cup {gone} :
    Count(after, x) + One(x = gone) = Count(before, x)

\* no two transactions of f have one date: the table has one order
DistinctDates(f) ==
  LET ls == StoredLines(f)
  IN  \A i, j \in DOMAIN ls : i # j => ls[i]["Date"] # ls[j]["Date"]

RECURSIVE IsSubseq(_, _)
IsSubseq(a, b) ==
  IF a = <<>> THEN TRUE
  ELSE IF b = <<>> THEN FALSE
  ELSE IF Head(a) = Head(b) THEN IsSubseq(Tail(a), Tail(b))
  ELSE IsSubseq(a, Tail(b))

RemoveAt(seq, i) == SelectIdx(seq, DOMAIN seq \ {i}, 1)

Parseable(txt) == \E d \in Dates : DateText(d) = txt

FoodExpense ==
  [Date |-> <<2024, 3, 1>>, Type |-> "Expense", Amount |-> 30, Category |-> "Food"]

SalaryIncome ==
  [Date |-> <<2024, 3, 2>>, Type |-> "Income", Amount |-> 500, Category |-> "Salary"]

Ops(tr) == [i \in DOMAIN tr |-> tr[i].op]

News(tr) == [i \in DOMAIN tr |-> tr[i].new]

\* C1: from an empty store, after add(2024-03-01, Expense, 30, Food) and
\* add(2024-03-02, Income, 500, Salary) the totals are (500, 30, 470) and the
\* monthly expense of 2024-03 is 30; deleting then the Expense row, addressed
\* by the position the table shows it at, succeeds and leaves the Income row
\* alone, with totals (500, 0, 500).
C1_Scenario ==
  LET sum == Summary(file, <<2024, 3, 2>>, 0)
  IN  /\ (Ops(trace) = <<"add", "add">> /\ News(trace) = <<FoodExpense, SalaryIncome>>)
         => /\ sum.total_income = 500
            /\ sum.total_expense = 30
            /\ sum.balance = 470
            /\ sum.monthly_expense = 30
      /\ (/\ Ops(trace) = <<"add", "add", "delete">>
          /\ News(SubSeq(trace, 1, 2)) = <<FoodExpense, SalaryIncome>>
          /\ trace[3].row = FoodExpense)
         => /\ trace[3].ok
            /\ StoredLines(file) = <<LineOf(SalaryIncome)>>
            /\ sum.total_income = 500
            /\ sum.total_expense = 0
            /\ sum.balance = 500

\* C2: an edit overwrites the row shown at the chosen position and no
\* other: the ledger afterwards has as many rows, and they are the rows of
\* before with the shown row replaced by the submitted fields.  Stated of
\* the ledgers whose dates all differ, where the table has one order.
C2_EditOverwritesShownRow ==
  [][(last'.op = "edit" /\ DistinctDates(file)) =>
       LET before == StoredLines(file)
           after  == StoredLines(file')
       IN  /\ Len(after) = Len(before)
           /\ Replaced(before, after, LineOf(last'.row), LineOf(last'.new))]_vars

\* C3: a delete removes the row shown at the chosen position and no other:
\* the saved ledger has one row fewer, the other rows as they were.  Stated
\* of the ledgers whose dates all differ, where the table has one order.
C3_DeleteRemovesShownRow ==
  [][(last'.op = "delete" /\ DistinctDates(file)) =>
       LET before == StoredLines(file)
           after  == StoredLines(file')
       IN  /\ last'.ok
           /\ Len(after) + 1 = Len(before)
           /\ Removed(before, after, LineOf(last'.row))]_vars

\* C4: in every reachable store state an add succeeds and appends exactly
\* the submitted row at the end, the stored rows before it unchanged.
C4_AddAppends ==
  [][last'.op = "add" =>
       /\ last'.ok
       /\ StoredLines(file') = Append(StoredLines(file), LineOf(last'.new))]_vars

\* C5: the backing file has exactly the columns Date, Type, Amount,
\* Category, in that order, after every sequence of operations.
C5_FourColumns == file.exists => file.header = BaseColumns

\* C6: load(save(L)) has the rows of L, in order, for every ledger L of
\* valid dates, the empty category included.
C6_RoundTrip ==
  last.op = "load" => TxSeq(reloaded.data) = TxSeq(mem.data)

\* C7: an edit or a delete leaves the rows that remain in the file in the
\* relative order they had in the file before: the file afterwards, less
\* the edited row, is a subsequence of the file before.  Stated of the
\* ledgers whose dates all differ, where the table has one order.
C7_StorageOrderKept ==
  [][(last'.op \in {"edit", "delete"} /\ last'.ok /\ DistinctDates(file)) =>
       LET before == StoredLines(file)
           after  == StoredLines(file')
       IN  IF last'.op = "delete"
           THEN IsSubseq(after, before)
           ELSE \E i \in DOMAIN after : IsSubseq(RemoveAt(after, i), before)]_vars

\* C8: what an add, an edit or a delete saves holds only lines whose date
\* parses, whatever lines the file held before.
C8_SavedDatesParse ==
  (last.op \in {"add", "edit", "delete"} /\ last.ok) =>
     \A i \in DOMAIN file.lines : Parseable(file.lines[i]["Date"])

\* C8 happens: a run dropped lines on load, saved, and the file has lines.
C8_Witness ==
  /\ last.op \in {"add", "edit", "delete"}
  /\ last.ok
  /\ last.dropped > 0
  /\ file.lines # <<>>

\* the sum of the Expense amounts of the lines of f dated in day's month
RECURSIVE ExpenseOfMonth(_, _)
ExpenseOfMonth(lines, day) ==
  IF lines = <<>> THEN 0
  ELSE LET l == Head(lines)
           d == to_datetime(l["Date"])
       IN  (IF /\ d # NaT
               /\ d[1] = day[1]
               /\ d[2] = day[2]
               /\ l["Type"] = "Expense"
            THEN l["Amount"] ELSE 0) + ExpenseOfMonth(Tail(lines), day)

\* C9: the status shown is OverBudget exactly when the Expense amounts of
\* the current calendar month sum to more than the limit; a sum equal to
\* the limit is WithinBudget.
C9_BudgetStatus ==
  shown.status # "none" =>
     /\ shown.status \in {"OverBudget", "WithinBudget"}
     /\ shown.status = "OverBudget" <=> ExpenseOfMonth(file.lines, today) > limit
     /\ shown.monthly_expense = ExpenseOfMonth(file.lines, today)

\* C9 happens: the month's expenses equal a positive limit, with an Income
\* line and a line of another month in the file, and WithinBudget is shown.
C9_Witness ==
  /\ shown.status = "WithinBudget"
  /\ limit > 0
  /\ ExpenseOfMonth(file.lines, today) = limit
  /\ \E i \in DOMAIN file.lines : file.lines[i]["Type"] = "Income"
  /\ \E i \in DOMAIN file.lines :
       /\ file.lines[i]["Type"] = "Expense"
       /\ Parseable(file.lines[i]["Date"])
       /\ to_datetime(file.lines[i]["Date"])[2] # today[2]

BothDone == \A s \in Sessions : sess[s].pc = "done"

\* C10: when both sessions have completed an add, the file holds the rows
\* it held at first and then both added rows, in the order of the saves,
\* if the two cycles did not overlap; if they overlapped it holds only the
\* row of the session that saved last.
C10_LostUpdate ==
  BothDone =>
    LET base   == StoredLines(hist.initial)
        first  == LineOf(sess[hist.order[1]].new)
        second == LineOf(sess[hist.order[2]].new)
    IN  IF hist.overlap
        THEN StoredLines(file) = base \o <<second>>
        ELSE StoredLines(file) = base \o <<first, second>>

\* C10 happens: both sessions reported success, their cycles overlapped, and
\* of two different added rows the file holds one.
C10_Witness ==
  /\ BothDone
  /\ hist.overlap
  /\ sess[1].new # sess[2].new
  /\ Len(file.lines) = Len(hist.initial.lines) + 1
  /\ Count(file.lines, LineOf(sess[hist.order[1]].new)) = 0

====
